---------------------------- MODULE Spec2Model ----------------------------
(***************************************************************************)
(* State-machine model of the native crypto envelope layer                 *)
(* (src/src/native_crypto.c): encrypt_bytes, decrypt_bytes, random_bytes,  *)
(* random_bytes_b64, hkdf_sha256, derive_session_key_b64 and               *)
(* pbkdf2_sha256_b64, driven by an arbitrary caller.                       *)
(*                                                                         *)
(* Byte buffers are sequences over 0..255.  A C string holding base64 text *)
(* is a sequence of character codes: 0..63 are the 64 alphabet characters  *)
(* in alphabet order, PAD is '=', BADCH is a character outside the         *)
(* alphabet.  A char* result is a record [null, s].                        *)
(*                                                                         *)
(* size_t arithmetic is done modulo 2^SizeBits.  The libsodium primitives  *)
(* (HMAC-SHA256, XChaCha20-Poly1305, Argon2, the CSPRNG) are replaced by   *)
(* small deterministic stand-ins with the same interface and the same      *)
(* functional contract; base64 is modelled bit-exactly.                    *)
(***************************************************************************)
EXTENDS Integers, Sequences, FiniteSets, TLC

(***************************************************************************)
(* Bounds of the model.                                                    *)
(***************************************************************************)
\* width of size_t in bits (scaled down so that 2^w stays a TLC integer)
SizeBits == 16
\* longest plaintext handed to encrypt_bytes
MaxPlainLen == 2
\* largest non-zero length asked of random_bytes / random_bytes_b64
MaxRandLen == 3

(***************************************************************************)
(* Program constants (libsodium's values for the macros the code uses).    *)
(***************************************************************************)
KEYBYTES == 32
NPUBBYTES == 24
ABYTES == 16
HASH_LEN == 32
HMAC_KEYBYTES == 32
HKDF_MAX_BLOCKS == 255
IKM_STACK == 64
SESSION_KEY_LEN == 32

RECURSIVE Pow2(_)
Pow2(n) == IF n = 0 THEN 1 ELSE 2 * Pow2(n - 1)

SizeMod == Pow2(SizeBits)
SIZE_MAX == SizeMod - 1

\* TRUE, once x has been evaluated in full (loops use it to finish one half
\* of their passes before starting the other)
Strict(x) == x = x

\* size_t addition
SizeAdd(a, b) == (a + b) % SizeMod

PAD == 64
BADCH == 65

NULL == [null |-> TRUE, s |-> <<>>]
Str(s) == [null |-> FALSE, s |-> s]

Zeros(n) == [i \in 1..n |-> 0]
AllZero(s) == \A i \in 1..Len(s) : s[i] = 0
Fill(n, b) == [i \in 1..n |-> b]
Ramp(n, b) == [i \in 1..n |-> (b + i) % 256]

\* sodium_memzero(buf, len): the first len bytes become zero
Memzero(buf, len) == [i \in 1..Len(buf) |-> IF i <= len THEN 0 ELSE buf[i]]

\* memcpy(dst + off, src, n)
Memcpy(dst, off, src, n) ==
    SubSeq(dst, 1, off) \o SubSeq(src, 1, n) \o SubSeq(dst, off + n + 1, Len(dst))

(***************************************************************************)
(* Base64, ORIGINAL variant (standard alphabet, padded).                   *)
(***************************************************************************)
\* sodium_base64_ENCODED_LEN(bin_len, ORIGINAL), including the NUL
B64EncodedLen(n) == ((n + 2) \div 3) * 4 + 1

\* sodium_bin2base64: the text written (without the NUL)
Bin2Base64(bin) ==
    LET n == Len(bin)
        At(i) == IF i <= n THEN bin[i] ELSE 0
        Ch(i) ==
            LET g == (i - 1) \div 4
                p == (i - 1) % 4
                b0 == At(3 * g + 1)
                b1 == At(3 * g + 2)
                b2 == At(3 * g + 3)
            IN  CASE p = 0 -> b0 \div 4
                  [] p = 1 -> (b0 % 4) * 16 + (b1 \div 16)
                  [] p = 2 -> IF 3 * g + 2 > n THEN PAD
                              ELSE (b1 % 16) * 4 + (b2 \div 64)
                  [] p = 3 -> IF 3 * g + 3 > n THEN PAD ELSE b2 % 64
    IN  [i \in 1..(B64EncodedLen(n) - 1) |-> Ch(i)]

\* b64_char_to_byte: 0xFF for a character outside the alphabet ('=' included)
B64CharToByte(c) == IF c \in 0..63 THEN c ELSE 255

\* one pass of the decoding loop of sodium_base642bin at b64[pos]; only the
\* low 12 bits of acc are ever read, so acc is kept modulo 2^12.  stop: the
\* loop was left by break
B64Step(b64, st, pos, max_len) ==
    IF st.stop THEN st
    ELSE LET d == B64CharToByte(b64[pos])
             acc2 == (st.acc * 64 + d) % 4096
             al2 == st.acc_len + 6
         IN  IF d = 255 THEN [st EXCEPT !.stop = TRUE]
             ELSE IF al2 < 8
             THEN [st EXCEPT !.acc = acc2, !.acc_len = al2, !.pos = pos + 1]
             ELSE IF Len(st.bin) >= max_len
             THEN [st EXCEPT !.acc = acc2, !.acc_len = al2 - 8, !.err = TRUE,
                             !.stop = TRUE]
             ELSE [st EXCEPT !.acc = acc2, !.acc_len = al2 - 8, !.pos = pos + 1,
                             !.bin = Append(@, (acc2 \div Pow2(al2 - 8)) % 256)]

\* the loop for b64[lo..hi], in order (halved to keep the evaluation shallow)
RECURSIVE B64Loop(_, _, _, _, _)
B64Loop(b64, st, lo, hi, max_len) ==
    IF lo > hi THEN st
    ELSE IF lo = hi THEN B64Step(b64, st, lo, max_len)
    ELSE LET mid == (lo + hi) \div 2
             half == B64Loop(b64, st, lo, mid, max_len)
         IN  IF Strict(half) THEN B64Loop(b64, half, mid + 1, hi, max_len) ELSE half

\* _sodium_base642bin_skip_padding with ignore = NULL
RECURSIVE B64SkipPadding(_, _, _)
B64SkipPadding(b64, pos, padding_len) ==
    IF padding_len = 0 THEN [ok |-> TRUE, pos |-> pos]
    ELSE IF pos > Len(b64) THEN [ok |-> FALSE, pos |-> pos]
    ELSE IF b64[pos] = PAD THEN B64SkipPadding(b64, pos + 1, padding_len - 1)
    ELSE [ok |-> FALSE, pos |-> pos]

\* sodium_base642bin(bin, max_len, b64, strlen(b64), NULL, &len, NULL, ORIGINAL)
Base642Bin(b64, max_len) ==
    LET r == B64Loop(b64, [pos |-> 1, acc |-> 0, acc_len |-> 0, bin |-> <<>>,
                           err |-> FALSE, stop |-> FALSE], 1, Len(b64), max_len)
        bad == r.acc_len > 4 \/ (r.acc % Pow2(r.acc_len)) # 0
        pd == IF bad \/ r.err THEN [ok |-> FALSE, pos |-> r.pos]
              ELSE B64SkipPadding(b64, r.pos, r.acc_len \div 2)
        ok == ~r.err /\ ~bad /\ pd.ok /\ pd.pos = Len(b64) + 1
    IN  [ok |-> ok, bin |-> IF ok THEN r.bin ELSE <<>>]


(***************************************************************************)
(* Stand-ins for the libsodium primitives.                                 *)
(***************************************************************************)
Mix(h, b) == (h * 31 + b + 1) % 65521

\* Mix over s[lo..hi], in order (halved to keep the evaluation shallow)
RECURSIVE AbsorbRange(_, _, _, _)
AbsorbRange(h, s, lo, hi) ==
    IF lo > hi THEN h
    ELSE IF lo = hi THEN Mix(h, s[lo])
    ELSE LET mid == (lo + hi) \div 2
             half == AbsorbRange(h, s, lo, mid)
         IN  IF Strict(half) THEN AbsorbRange(half, s, mid + 1, hi) ELSE half

Absorb(h, s) == AbsorbRange(h, s, 1, Len(s))

\* HMAC-SHA256 stand-in: a 32-byte digest depending on every byte of the key
\* and of the message, and on their order and lengths
HmacDigest(key, msg) ==
    LET h == Absorb(Mix(Absorb(17, key), 256), msg)
    IN  [j \in 1..HASH_LEN |-> ((h + j) * (j + 7) + (h \div 256)) % 256]

\* crypto_auth_hmacsha256_init / _update / _final
HmacInit(key, key_len) == [key |-> SubSeq(key, 1, key_len), msg |-> <<>>]
HmacUpdate(st, data, len) == [st EXCEPT !.msg = @ \o SubSeq(data, 1, len)]
HmacFinal(st) == HmacDigest(st.key, st.msg)

\* XChaCha20 stand-in: keystream byte i under (key, nonce)
KeyStream(key, nonce, i) == (Absorb(Absorb(29, key), nonce) + 13 * i) % 256

\* Poly1305 stand-in: the 16-byte tag of ciphertext c under (key, nonce)
AeadTag(c, nonce, key) == SubSeq(HmacDigest(key, nonce \o c), 1, ABYTES)

\* crypto_aead_xchacha20poly1305_ietf_encrypt(c, &clen, m, mlen, NULL, 0, NULL,
\* nonce, key): c = ciphertext || tag, always returns 0
AeadEncrypt(m, nonce, key) ==
    LET c == [i \in 1..Len(m) |-> (m[i] + KeyStream(key, nonce, i)) % 256]
    IN  [rc |-> 0, c |-> c \o AeadTag(c, nonce, key)]

\* crypto_aead_xchacha20poly1305_ietf_decrypt(m, &mlen, NULL, c, clen, NULL, 0,
\* nonce, key): -1 when clen < ABYTES or the tag does not verify
AeadDecrypt(c, nonce, key) ==
    IF Len(c) < ABYTES THEN [rc |-> -1, m |-> <<>>]
    ELSE LET body == SubSeq(c, 1, Len(c) - ABYTES)
             tag == SubSeq(c, Len(c) - ABYTES + 1, Len(c))
         IN  IF tag # AeadTag(body, nonce, key)
             THEN [rc |-> -1, m |-> Zeros(Len(body))]
             ELSE [rc |-> 0,
                   m |-> [i \in 1..Len(body) |->
                            (body[i] + 256 - KeyStream(key, nonce, i)) % 256]]

\* crypto_pwhash(out, outlen, passwd, strlen(passwd), salt, opslimit,
\* MEMLIMIT_INTERACTIVE, alg_default): out is zero-filled first; -1 when outlen
\* or opslimit is out of range or the work memory cannot be had
PWHASH_BYTES_MIN == 16
PWHASH_OPSLIMIT_MIN == 1
CryptoPwhash(outlen, passwd, salt, opslimit, mem_ok) ==
    IF outlen < PWHASH_BYTES_MIN \/ opslimit < PWHASH_OPSLIMIT_MIN \/ ~mem_ok
    THEN [rc |-> -1, out |-> Zeros(outlen)]
    ELSE LET h == Absorb(Absorb(Mix(41, opslimit % 256), passwd), salt)
         IN  [rc |-> 0, out |-> [j \in 1..outlen |-> ((h + j) * 5 + j) % 256]]

(***************************************************************************)
(* native_crypto.c                                                         *)
(***************************************************************************)
\* a buffer as it is when the function lets go of it (free, or return for a
\* stack buffer)
Rel(name, data) == [buf |-> name, data |-> data]

\* _bin_to_b64(bin, bin_len); malloc_ok: whether its malloc succeeds
BinToB64(bin, bin_len, malloc_ok) ==
    IF ~malloc_ok THEN NULL ELSE Str(Bin2Base64(SubSeq(bin, 1, bin_len)))

\* _b64_to_bin(b64, &out_len); the result's s is the decoded buffer
B64MaxLen(b64) == (Len(b64) * 3) \div 4 + 1
B64ToBin(b64, malloc_ok) ==
    IF ~malloc_ok THEN NULL
    ELSE LET r == Base642Bin(b64, B64MaxLen(b64))
         IN  IF ~r.ok THEN NULL ELSE Str(r.bin)

\* the envelope laid out the other way round, ciphertext before nonce
CombinedCipherFirst(nonce, cipher, total_len) == cipher \o nonce

\* memcpy(combined, nonce, ..); memcpy(combined + sizeof nonce, cipher, ..)
Combined(nonce, cipher, total_len) ==
    Memcpy(Memcpy(Zeros(total_len), 0, nonce, NPUBBYTES), NPUBBYTES, cipher,
           Len(cipher))

\* the result of one call: return value, the caller's key buffer afterwards,
\* the internal buffers let go of, the return path taken, whether the call
\* got as far as sodium_init(), how often the AEAD decrypt primitive ran
Result(ret, key, released, path, init_called, aead) ==
    [ret |-> ret, key |-> key, released |-> released, path |-> path,
     init_called |-> init_called, aead |-> aead]

\* encrypt_bytes(data, len, key, key_len).  init: sodium_init() >= 0;
\* nonce: what randombytes_buf draws; oom: which malloc fails (0: none),
\* 1 cipher, 2 combined, 3 the base64 text
EncryptBytes(data, key, nonce, init, oom) ==
    IF Len(key) # KEYBYTES THEN Result(NULL, key, <<>>, "key_len", FALSE, 0)
    ELSE IF ~init THEN Result(NULL, key, <<>>, "init", TRUE, 0)
    ELSE IF oom = 1
    THEN Result(NULL, key, <<Rel("nonce", nonce)>>, "oom_cipher", TRUE, 0)
    ELSE LET e == AeadEncrypt(data, nonce, key)
             cipher_len == Len(e.c)
             total_len == SizeAdd(NPUBBYTES, cipher_len)
         IN  IF e.rc # 0
             THEN Result(NULL, key, <<Rel("cipher", e.c)>>, "aead", TRUE, 0)
             ELSE IF oom = 2
             THEN Result(NULL, key, <<Rel("cipher", e.c)>>, "oom_combined", TRUE, 0)
             ELSE LET combined == Combined(nonce, e.c, total_len)
                      b64 == BinToB64(combined, total_len, oom # 3)
                  IN  Result(b64, Memzero(key, Len(key)),
                             <<Rel("cipher", e.c),
                               Rel("combined", Memzero(combined, total_len))>>,
                             IF b64.null THEN "oom_b64" ELSE "ok", TRUE, 0)

\* a length check that asks for the nonce only
MinEnvelopeLenNonceOnly == NPUBBYTES

\* the shortest envelope decrypt_bytes goes on with
MinEnvelopeLen == NPUBBYTES + ABYTES

\* decrypt_bytes from the AEAD call on (lines 157-178).  d: what the AEAD
\* decrypt primitive returned; plain is cipher_len bytes long
DecryptOpened(enc_bin, cipher_len, d, key, b64_ok) ==
    IF d.rc # 0
    THEN Result(NULL, key,
                <<Rel("plain", Memzero(d.m \o Zeros(cipher_len - Len(d.m)), cipher_len)),
                  Rel("enc_bin", enc_bin)>>,
                "auth", TRUE, 1)
    ELSE Result(BinToB64(d.m, Len(d.m), b64_ok), Memzero(key, Len(key)),
                <<Rel("plain", Memzero(d.m \o Zeros(cipher_len - Len(d.m)), Len(d.m))),
                  Rel("enc_bin", enc_bin)>>,
                IF b64_ok THEN "ok" ELSE "oom_b64", TRUE, 1)

\* decrypt_bytes from the length check on (lines 139-155).  enc: what
\* _b64_to_bin returned
DecryptDecoded(enc, key, oom) ==
    IF enc.null
    THEN Result(NULL, key, <<>>, IF oom = 1 THEN "oom_enc" ELSE "base64", TRUE, 0)
    ELSE IF Len(enc.s) < MinEnvelopeLen
    THEN Result(NULL, key, <<Rel("enc_bin", enc.s)>>, "short", TRUE, 0)
    ELSE IF oom = 2
    THEN Result(NULL, key, <<Rel("enc_bin", enc.s)>>, "oom_plain", TRUE, 0)
    ELSE DecryptOpened(enc.s, Len(enc.s) - NPUBBYTES,
                       AeadDecrypt(SubSeq(enc.s, NPUBBYTES + 1, Len(enc.s)),
                                   SubSeq(enc.s, 1, NPUBBYTES), key),
                       key, oom # 3)

\* decrypt_bytes(enc_b64, key, key_len).  oom: which malloc fails (0: none),
\* 1 the decoded envelope, 2 plain, 3 the base64 text
DecryptBytes(enc_b64, key, init, oom) ==
    IF Len(key) # KEYBYTES THEN Result(NULL, key, <<>>, "key_len", FALSE, 0)
    ELSE IF ~init THEN Result(NULL, key, <<>>, "init", TRUE, 0)
    ELSE DecryptDecoded(B64ToBin(enc_b64, oom # 1), key, oom)

\* bytes of memory nothing has written yet
Untouched(n) == Fill(n, -1)

\* random_bytes(buf, len); rnd: what randombytes_buf draws
RandomBytes(buf, len, rnd, init) ==
    IF ~init THEN [rc |-> -1, buf |-> buf]
    ELSE IF buf.null \/ len = 0 THEN [rc |-> -1, buf |-> buf]
    ELSE [rc |-> 0, buf |-> Str(Memcpy(buf.s, 0, rnd, len))]

\* n = (okm_len + hash_len - 1) / hash_len, in size_t
HkdfBlocks(okm_len) == SizeAdd(SizeAdd(okm_len, HASH_LEN), SIZE_MAX) \div HASH_LEN

\* a copy of the whole block, whatever is left of okm
CopyLenWholeBlock(written, okm_len) == HASH_LEN

\* copy_len = (written + hash_len > okm_len) ? (okm_len - written) : hash_len
CopyLen(written, okm_len) ==
    IF SizeAdd(written, HASH_LEN) > okm_len THEN okm_len - written ELSE HASH_LEN

\* unsigned char c = (unsigned char)i
CounterByte(i) == i % 256

\* the body of the expansion loop of hkdf_sha256 for counter i; st holds the
\* loop's variables t, t_len, written and the memory at okm
HkdfStep(st, i, prk, info, info_len, okm_len) ==
    LET st0 == HmacInit(prk, HASH_LEN)
        st1 == IF st.t_len > 0 THEN HmacUpdate(st0, st.t, st.t_len) ELSE st0
        st2 == IF ~info.null /\ info_len > 0
               THEN HmacUpdate(st1, info.s, info_len) ELSE st1
        st3 == HmacUpdate(st2, <<CounterByte(i)>>, 1)
        t2 == HmacFinal(st3)
        copy_len == CopyLen(st.written, okm_len)
    IN  [t |-> t2, t_len |-> HASH_LEN, written |-> SizeAdd(st.written, copy_len),
         buf |-> Memcpy(st.buf, st.written, t2, copy_len)]

\* for (i = lo; i <= hi; i++) of that loop (halved to keep the evaluation
\* shallow; the passes run in the order of i)
RECURSIVE HkdfLoop(_, _, _, _, _, _, _)
HkdfLoop(st, lo, hi, prk, info, info_len, okm_len) ==
    IF lo > hi THEN st
    ELSE IF lo = hi THEN HkdfStep(st, lo, prk, info, info_len, okm_len)
    ELSE LET mid == (lo + hi) \div 2
             half == HkdfLoop(st, lo, mid, prk, info, info_len, okm_len)
         IN  IF Strict(half)
             THEN HkdfLoop(half, mid + 1, hi, prk, info, info_len, okm_len)
             ELSE half

\* hkdf_sha256(ikm, ikm_len, salt, salt_len, info, info_len, okm, okm_len).
\* okm.s is the memory starting at okm: the caller's okm_len bytes and what
\* lies behind them
HkdfSha256(ikm, ikm_len, salt, salt_len, info, info_len, okm, okm_len, init) ==
    IF ~init THEN [rc |-> -1, okm |-> okm, released |-> <<>>, path |-> "init"]
    ELSE IF okm_len = 0 \/ okm.null
    THEN [rc |-> -1, okm |-> okm, released |-> <<>>, path |-> "okm"]
    ELSE LET n == HkdfBlocks(okm_len)
         IN  IF n > HKDF_MAX_BLOCKS
             THEN [rc |-> -1, okm |-> okm, released |-> <<>>, path |-> "blocks"]
             ELSE LET zsalt == salt.null \/ salt_len = 0
                      s == IF zsalt THEN Zeros(HMAC_KEYBYTES) ELSE salt.s
                      sl == IF zsalt THEN HMAC_KEYBYTES ELSE salt_len
                      prk == HmacFinal(HmacUpdate(HmacInit(s, sl), ikm, ikm_len))
                      r == HkdfLoop([t |-> Untouched(HASH_LEN), t_len |-> 0,
                                     written |-> 0, buf |-> okm.s],
                                    1, n, prk, info, info_len, okm_len)
                  IN  [rc |-> 0, okm |-> Str(r.buf),
                       released |-> <<Rel("prk", Memzero(prk, HASH_LEN)),
                                      Rel("t", Memzero(r.t, HASH_LEN))>>,
                       path |-> "ok"]

\* the derivation shared by both branches of derive_session_key_b64, once the
\* concatenation buffer cat (named name) is filled: hkdf_sha256 into out[32],
\* then _bin_to_b64; wipe_cat: whether the branch wipes cat on success
DeriveTail(name, cat, ikm_len, salt, salt_len, init, b64_ok, wipe_cat, path) ==
    LET h == HkdfSha256(cat, ikm_len, salt, salt_len, NULL, 0,
                        Str(Untouched(SESSION_KEY_LEN)), SESSION_KEY_LEN, init)
    IN  IF h.rc # 0
        THEN Result(NULL, <<>>, h.released \o <<Rel(name, cat)>>, path \o "_hkdf",
                    TRUE, 0)
        ELSE LET b64 == BinToB64(h.okm.s, SESSION_KEY_LEN, b64_ok)
             IN  Result(b64, <<>>,
                        h.released \o
                        <<Rel(name, IF wipe_cat THEN Memzero(cat, Len(cat)) ELSE cat),
                          Rel("out", Memzero(h.okm.s, SESSION_KEY_LEN))>>,
                        path \o (IF b64.null THEN "_oom_b64" ELSE "_ok"), TRUE, 0)

\* derive_session_key_b64(master_key, master_len, ephemeral_key, eph_len, salt,
\* salt_len).  oom: 1 dyn (heap branch only), 2 the base64 text.  A memcpy
\* that runs over its destination, or reads through NULL, is undefined:
\* the call then ends in ub_ret, whatever the build makes of it
DeriveSessionKeyB64(master, master_len, eph, eph_len, salt, salt_len, init, oom, ub_ret) ==
    IF master.null \/ master_len = 0 \/ eph_len = 0
    THEN Result(NULL, <<>>, <<>>, "empty", FALSE, 0)
    ELSE LET sum == SizeAdd(master_len, eph_len)
             ub == master_len + eph_len > sum \/ eph.null
         IN  IF sum > IKM_STACK
             THEN IF oom = 1 THEN Result(NULL, <<>>, <<>>, "heap_oom_dyn", FALSE, 0)
                  ELSE IF ub THEN Result(ub_ret, <<>>, <<>>, "heap_ub", FALSE, 0)
                  ELSE LET dyn == Memcpy(Memcpy(Untouched(sum), 0, master.s, master_len),
                                         master_len, eph.s, eph_len)
                       IN  DeriveTail("dyn", dyn, sum, salt, salt_len, init, oom # 2,
                                      FALSE, "heap")
             ELSE IF ub THEN Result(ub_ret, <<>>, <<>>, "stack_ub", FALSE, 0)
                  ELSE LET ikm == Memcpy(Memcpy(Untouched(IKM_STACK), 0, master.s,
                                                master_len),
                                         master_len, eph.s, eph_len)
                       IN  DeriveTail("ikm", ikm, sum, salt, salt_len, init, oom # 2,
                                      TRUE, "stack")

\* random_bytes_b64(len).  oom: 1 buf, 2 the base64 text; malloc0_null: whether
\* this platform's malloc(0) returns NULL
RandomBytesB64(len, rnd, init, oom, malloc0_null) ==
    IF ~init THEN Result(NULL, <<>>, <<>>, "init", TRUE, 0)
    ELSE IF oom = 1 \/ (len = 0 /\ malloc0_null)
    THEN Result(NULL, <<>>, <<>>, "oom_buf", TRUE, 0)
    ELSE LET buf == SubSeq(rnd, 1, len)
             b64 == BinToB64(buf, len, oom # 2)
         IN  Result(b64, <<>>, <<Rel("buf", Memzero(buf, len))>>,
                    IF b64.null THEN "oom_b64" ELSE "ok", TRUE, 0)

\* pbkdf2_sha256_b64(password, salt, salt_len, iterations, dk_len).
\* oom: 1 dk, 2 the base64 text; mem_ok: crypto_pwhash gets its work memory
Pbkdf2Sha256B64(password, salt, salt_len, iterations, dk_len, init, oom, mem_ok) ==
    IF password.null \/ salt.null \/ dk_len = 0
    THEN Result(NULL, <<>>, <<>>, "args", FALSE, 0)
    ELSE IF ~init THEN Result(NULL, <<>>, <<>>, "init", TRUE, 0)
    ELSE IF oom = 1 THEN Result(NULL, <<>>, <<>>, "oom_dk", TRUE, 0)
    ELSE LET h == CryptoPwhash(dk_len, password.s, salt.s, iterations, mem_ok)
         IN  IF h.rc # 0
             THEN Result(NULL, <<>>, <<Rel("dk", h.out)>>, "pwhash", TRUE, 0)
             ELSE LET b64 == BinToB64(h.out, dk_len, oom # 2)
                  IN  Result(b64, <<>>, <<Rel("dk", Memzero(h.out, dk_len))>>,
                             IF b64.null THEN "oom_b64" ELSE "ok", TRUE, 0)

(***************************************************************************)
(* The caller.  It is idle, calls one function (one step: the whole call), *)
(* and takes the result (Return).  The variables hold what the last call   *)
(* was given and what it left behind.                                      *)
(***************************************************************************)
VARIABLES
    sodium_initialized, \* libsodium's process-wide "initialized" flag
    pc,                 \* "idle" or "returned"
    op,                 \* the function called last
    args,               \* its arguments
    ret,                \* the char* it returned
    rc,                 \* the int it returned
    key,                \* the caller's key buffer after the call
    out,                \* the caller's output buffer after the call
    released,           \* internal buffers as they were when let go of
    path,               \* the return path taken
    aead,               \* runs of the AEAD decrypt primitive in the call
    held,               \* the envelope the caller holds, and what made it
    fail_obs            \* what failing decrypt_bytes calls have shown so far

vars == <<sodium_initialized, pc, op, args, ret, rc, key, out, released, path,
          aead, held, fail_obs>>

NoEnvelope == [some |-> FALSE, b64 |-> <<>>, m |-> <<>>, k |-> <<>>]

Init ==
    /\ sodium_initialized = FALSE
    /\ pc = "idle"
    /\ op = "none"
    /\ args = [none |-> TRUE]
    /\ ret = NULL
    /\ rc = 0
    /\ key = <<>>
    /\ out = NULL
    /\ released = <<>>
    /\ path = "none"
    /\ aead = 0
    /\ held = NoEnvelope
    /\ fail_obs = {}

\* sodium_init() succeeds once the library is initialized, and may succeed or
\* fail before
SodiumInit(init_ok) == sodium_initialized \/ init_ok

PlainBytes == {104, 255}
Plaintexts == UNION {[1..n -> PlainBytes] : n \in 0..MaxPlainLen}
Keys == {Zeros(KEYBYTES), Ramp(KEYBYTES, 1), Ramp(KEYBYTES, 77),
         Fill(KEYBYTES - 1, 9)}
Nonces == {Ramp(NPUBBYTES, 0), Fill(NPUBBYTES, 255)}

\* the state after a call of a function returning char*
Returned(name, a, r, init) ==
    /\ pc' = "returned"
    /\ op' = name
    /\ args' = a
    /\ ret' = r.ret
    /\ rc' = 0
    /\ key' = r.key
    /\ out' = NULL
    /\ released' = r.released
    /\ path' = r.path
    /\ aead' = r.aead
    /\ sodium_initialized' = IF r.init_called THEN init ELSE sodium_initialized

\* the state after a call of a function returning int
ReturnedInt(name, a, code, buf, rel, p, init) ==
    /\ pc' = "returned"
    /\ op' = name
    /\ args' = a
    /\ ret' = NULL
    /\ rc' = code
    /\ key' = <<>>
    /\ out' = buf
    /\ released' = rel
    /\ path' = p
    /\ aead' = 0
    /\ sodium_initialized' = init
    /\ UNCHANGED <<held, fail_obs>>

\* the caller takes the result; an envelope encrypt_bytes returned is kept,
\* with the plaintext and the key it was made from, for the next call
Return ==
    /\ pc = "returned"
    /\ pc' = "idle"
    /\ held' = IF op = "encrypt_bytes" /\ ~ret.null
               THEN [some |-> TRUE, b64 |-> ret.s, m |-> args.data, k |-> args.key0]
               ELSE NoEnvelope
    /\ op' = "none"
    /\ args' = [none |-> TRUE]
    /\ ret' = NULL
    /\ rc' = 0
    /\ key' = <<>>
    /\ out' = NULL
    /\ released' = <<>>
    /\ path' = "none"
    /\ aead' = 0
    /\ UNCHANGED <<sodium_initialized, fail_obs>>

Encrypt ==
    /\ pc = "idle"
    /\ ~held.some
    /\ \E data \in Plaintexts, k \in Keys, nonce \in Nonces, init_ok \in BOOLEAN,
          oom \in 0..3 :
           LET init == SodiumInit(init_ok)
           IN  Returned("encrypt_bytes",
                        [data |-> data, key0 |-> k, nonce |-> nonce],
                        EncryptBytes(data, k, nonce, init, oom), init)
    /\ UNCHANGED <<held, fail_obs>>

\* one character of base64 text replaced by the next of the alphabet
Tamper(b64, p) == [b64 EXCEPT ![p] = (@ + 1) % 64]

\* envelopes no encrypt_bytes call made: empty, too short, not base64, or of
\* full length with a tag that does not verify
Foreign ==
    {<<>>, <<BADCH>>, <<0>>, <<0, 0, PAD>>, <<0, 1, PAD, PAD>>,
     Bin2Base64(Ramp(3, 0)), Bin2Base64(Ramp(NPUBBYTES, 3)),
     Bin2Base64(Ramp(NPUBBYTES + ABYTES - 1, 5)),
     Bin2Base64(Ramp(NPUBBYTES + ABYTES, 5)),
     Bin2Base64(Ramp(NPUBBYTES + ABYTES + 1, 5))}

\* what the caller hands to decrypt_bytes: the envelope it holds, as it is
\* (genuine) or with one character changed; or, holding none, a foreign one
Envelopes ==
    IF held.some
    THEN {[b64 |-> held.b64, genuine |-> TRUE]}
         \cup {[b64 |-> Tamper(held.b64, p), genuine |-> FALSE] :
                 p \in {1, NPUBBYTES + 10, Len(held.b64) - 3}}
    ELSE {[b64 |-> e, genuine |-> FALSE] : e \in Foreign}

Decrypt ==
    /\ pc = "idle"
    /\ \E e \in Envelopes, k \in Keys, init_ok \in BOOLEAN, oom \in 0..3 :
           LET init == SodiumInit(init_ok)
               r == DecryptBytes(e.b64, k, init, oom)
           IN  /\ Returned("decrypt_bytes",
                           [b64 |-> e.b64, key0 |-> k, genuine |-> e.genuine,
                            m |-> held.m, k |-> held.k, init |-> init,
                            oom |-> oom], r, init)
               /\ fail_obs' = IF r.ret.null
                              THEN fail_obs \cup
                                   {IF r.key = k THEN "unchanged" ELSE "wiped"}
                              ELSE fail_obs
    /\ UNCHANGED held

Randoms == {Ramp(MaxRandLen, 10), Ramp(MaxRandLen, 200), Zeros(MaxRandLen)}

RandomBytesCall ==
    /\ pc = "idle"
    /\ \E len \in 0..MaxRandLen, isnull \in BOOLEAN, rnd \in Randoms,
          init_ok \in BOOLEAN :
           LET init == SodiumInit(init_ok)
               buf == IF isnull THEN NULL ELSE Str(Untouched(len + 1))
               r == RandomBytes(buf, len, rnd, init)
           IN  ReturnedInt("random_bytes", [len |-> len, buf |-> buf, init |-> init],
                           r.rc, r.buf, <<>>, IF r.rc = 0 THEN "ok" ELSE "fail", init)

RandomBytesB64Call ==
    /\ pc = "idle"
    /\ \E len \in 0..MaxRandLen, rnd \in Randoms, init_ok \in BOOLEAN,
          oom \in 0..2, malloc0_null \in BOOLEAN :
           LET init == SodiumInit(init_ok)
           IN  Returned("random_bytes_b64",
                        [len |-> len, rnd |-> rnd, init |-> init, oom |-> oom,
                         malloc0_null |-> malloc0_null],
                        RandomBytesB64(len, rnd, init, oom, malloc0_null), init)
    /\ UNCHANGED <<held, fail_obs>>

\* a pointer argument with the length passed beside it
Arg(p, len) == [p |-> p, len |-> len]

HkdfIkms == {<<>>, <<1, 2, 3>>}
HkdfSalts == {Arg(NULL, 0), Arg(Str(<<5, 6>>), 0), Arg(Str(<<5, 6>>), 2)}
HkdfInfos == {Arg(NULL, 0), Arg(Str(<<9>>), 0), Arg(Str(<<9>>), 1)}
HkdfMax == HKDF_MAX_BLOCKS * HASH_LEN
\* output lengths around every boundary of the block count
HkdfLens == {0, 1, HASH_LEN - 1, HASH_LEN, HASH_LEN + 1, 2 * HASH_LEN + 1,
             HkdfMax + 1, SIZE_MAX - HASH_LEN + 1, SIZE_MAX - HASH_LEN + 2,
             SIZE_MAX}
\* the longest outputs (255 blocks) are asked for with one ikm and one salt
HkdfLongLens == {HkdfMax - HASH_LEN + 1, HkdfMax}
HkdfInputs ==
    (HkdfIkms \X HkdfSalts \X HkdfInfos \X HkdfLens)
    \cup ({<<1, 2, 3>>} \X {Arg(Str(<<5, 6>>), 2)} \X HkdfInfos \X HkdfLongLens)

\* the memory at okm: okm_len bytes and HASH_LEN more behind them (only the
\* lengths hkdf_sha256 can write to are laid out in full)
OkmMemory(okm_len) ==
    Untouched((IF okm_len <= HkdfMax THEN okm_len ELSE 0) + HASH_LEN)

HkdfCall ==
    /\ pc = "idle"
    /\ \E in \in HkdfInputs, isnull \in BOOLEAN, init_ok \in BOOLEAN :
           LET init == SodiumInit(init_ok)
               ikm == in[1]
               salt == in[2]
               info == in[3]
               okm_len == in[4]
               r == HkdfSha256(ikm, Len(ikm), salt.p, salt.len, info.p, info.len,
                               IF isnull THEN NULL ELSE Str(OkmMemory(okm_len)),
                               okm_len, init)
           IN  ReturnedInt("hkdf_sha256",
                           [ikm |-> ikm, salt |-> salt, info |-> info,
                            okm_null |-> isnull, okm_len |-> okm_len, init |-> init],
                           r.rc, r.okm, r.released, r.path, init)

\* keys with the lengths passed beside them.  A key whose length is near
\* SIZE_MAX is given by its first bytes: every call made with one runs over
\* the concatenation buffer before any later byte is read
Masters == {Arg(NULL, 0), Arg(NULL, KEYBYTES), Arg(Str(<<>>), 0),
            Arg(Str(Ramp(1, 0)), 1), Arg(Str(Ramp(KEYBYTES, 1)), KEYBYTES),
            Arg(Str(Ramp(KEYBYTES + 1, 2)), KEYBYTES + 1),
            Arg(Str(Ramp(KEYBYTES, 1)), SIZE_MAX)}
Ephemerals == {Arg(NULL, 0), Arg(NULL, 1), Arg(Str(<<>>), 0), Arg(Str(Ramp(1, 7)), 1),
               Arg(Str(Ramp(KEYBYTES, 50)), KEYBYTES),
               Arg(Str(Ramp(KEYBYTES, 50)), SIZE_MAX - KEYBYTES + 100)}
UbOutcomes == {NULL, Str(Bin2Base64(Zeros(SESSION_KEY_LEN)))}

DeriveCall ==
    /\ pc = "idle"
    /\ \E m \in Masters, e \in Ephemerals,
          salt \in {Arg(NULL, 0), Arg(Str(<<5, 6>>), 2)},
          init_ok \in BOOLEAN, oom \in 0..2, ub_ret \in UbOutcomes :
           LET init == SodiumInit(init_ok)
           IN  Returned("derive_session_key_b64",
                        [master |-> m, eph |-> e, salt |-> salt, init |-> init,
                         oom |-> oom],
                        DeriveSessionKeyB64(m.p, m.len, e.p, e.len, salt.p, salt.len,
                                            init, oom, ub_ret), init)
    /\ UNCHANGED <<held, fail_obs>>

Pbkdf2Call ==
    /\ pc = "idle"
    /\ \E password \in {NULL, Str(<<112, 119>>)},
          salt \in {Arg(NULL, 0),
                    Arg(Str(Fill(PWHASH_BYTES_MIN, 1)), PWHASH_BYTES_MIN)},
          iterations \in {0, 3}, dk_len \in {0, PWHASH_BYTES_MIN - 1, KEYBYTES},
          init_ok \in BOOLEAN, oom \in 0..2, mem_ok \in BOOLEAN :
           LET init == SodiumInit(init_ok)
           IN  Returned("pbkdf2_sha256_b64",
                        [password |-> password, salt |-> salt,
                         iterations |-> iterations, dk_len |-> dk_len],
                        Pbkdf2Sha256B64(password, salt.p, salt.len, iterations,
                                        dk_len, init, oom, mem_ok), init)
    /\ UNCHANGED <<held, fail_obs>>

\* a caller of the envelope functions
NextAead == Encrypt \/ Decrypt \/ Return
SpecAead == Init /\ [][NextAead]_vars

\* a caller of the key derivation functions
NextKdf == HkdfCall \/ DeriveCall \/ Pbkdf2Call \/ Return
SpecKdf == Init /\ [][NextKdf]_vars

\* a caller of the random source
NextRandom == RandomBytesCall \/ RandomBytesB64Call \/ Return
SpecRandom == Init /\ [][NextRandom]_vars

\* any caller
Next == NextAead \/ NextKdf \/ NextRandom
Spec == Init /\ [][Next]_vars


(***************************************************************************)
(* Properties.                                                             *)
(***************************************************************************)
AeadCall == pc = "returned" /\ op \in {"encrypt_bytes", "decrypt_bytes"}
DecryptCall == pc = "returned" /\ op = "decrypt_bytes"
HkdfReturned == pc = "returned" /\ op = "hkdf_sha256"
DeriveReturned == pc = "returned" /\ op = "derive_session_key_b64"

\* C1: after every call of encrypt_bytes or decrypt_bytes made with a 32-byte
\* key, on every return path, the caller's key buffer holds only zero bytes
C1_KeyWipedOnEveryReturn ==
    (AeadCall /\ Len(args.key0) = KEYBYTES) => AllZero(key)

\* decrypt_bytes was handed, unchanged, the envelope encrypt_bytes made, and
\* the key that envelope was made with
RoundTripCall == DecryptCall /\ args.genuine /\ args.key0 = args.k

\* the return paths of decrypt_bytes on which one of its allocations failed
DecryptOomPaths == {"oom_enc", "oom_plain", "oom_b64"}

\* C2 (as stated): decrypt_bytes(encrypt_bytes(m, k), k) succeeds and returns
\* the padded base64 text of m
C2_RoundTrip ==
    RoundTripCall => ret = Str(Bin2Base64(args.m))

\* C2 (amended): the round trip returns the padded base64 text of m unless an
\* allocation inside decrypt_bytes fails; then it returns NULL
C2_RoundTripUnlessOom ==
    RoundTripCall =>
        IF path \in DecryptOomPaths THEN ret.null
        ELSE ret = Str(Bin2Base64(args.m))

C2_RoundTripSeen ==
    /\ RoundTripCall
    /\ Len(args.m) > 0
    /\ path = "ok"
    /\ ret = Str(Bin2Base64(args.m))

\* the envelope text decodes, and to fewer bytes than a nonce and a tag take
DecodesShort(b64) ==
    LET r == Base642Bin(b64, B64MaxLen(b64))
    IN  r.ok /\ Len(r.bin) < NPUBBYTES + ABYTES

\* C4: decrypt_bytes with a 32-byte key and an envelope that decodes to fewer
\* than 40 bytes fails, and the AEAD decrypt primitive is not run in that call
C4_ShortEnvelopeRejectedBeforeAead ==
    (DecryptCall /\ Len(args.key0) = KEYBYTES /\ DecodesShort(args.b64))
        => (ret.null /\ aead = 0)

C4_ShortEnvelopeSeen ==
    /\ DecryptCall
    /\ Len(args.key0) = KEYBYTES
    /\ args.init /\ args.oom = 0
    /\ DecodesShort(args.b64)
    /\ Len(args.b64) >= B64EncodedLen(NPUBBYTES) - 1
    /\ path = "short"
    /\ ret.null

\* C10: any two failing calls of decrypt_bytes show the caller the same thing:
\* NULL, and the same relation of the key buffer to its contents before
C10_FailuresIndistinguishable == Cardinality(fail_obs) <= 1

\* ceil(okm_len / 32), in the integers
BlocksNeeded(okm_len) == (okm_len + HASH_LEN - 1) \div HASH_LEN

\* C3: hkdf_sha256 fails for every okm_len that needs more than 255 blocks,
\* the lengths near SIZE_MAX included
C3_TooManyBlocksFails ==
    (HkdfReturned /\ BlocksNeeded(args.okm_len) > HKDF_MAX_BLOCKS) => rc = -1

\* the names of the buffers holding the concatenation master_key || ephemeral_key
ConcatBuffers == {"ikm", "dyn"}

\* C5: in derive_session_key_b64 the concatenation buffer is all zero when it
\* is released, on the stack and the heap path, on success and on failure
C5_ConcatWipedBeforeRelease ==
    DeriveReturned =>
        \A i \in 1..Len(released) :
            released[i].buf \in ConcatBuffers => AllZero(released[i].data)

\* the call returned failure
Failed ==
    /\ pc = "returned"
    /\ \/ op \in {"encrypt_bytes", "decrypt_bytes", "derive_session_key_b64",
                  "pbkdf2_sha256_b64", "random_bytes_b64"} /\ ret.null
       \/ op = "hkdf_sha256" /\ rc = -1

\* internal buffers that hold plaintext, derived key bytes or keying material
SensitiveBuffers == {"plain", "ikm", "dyn", "out", "dk", "buf", "prk", "t"}

\* C6: on every failure return nothing is put out (the caller's output buffer
\* is as it was) and every sensitive internal buffer is zero when released
C6_FailureWipesIntermediates ==
    Failed =>
        /\ op = "hkdf_sha256" =>
               out = (IF args.okm_null THEN NULL ELSE Str(OkmMemory(args.okm_len)))
        /\ \A i \in 1..Len(released) :
               released[i].buf \in SensitiveBuffers => AllZero(released[i].data)

\* C7: a request for zero random bytes fails (random_bytes leaves buf alone,
\* random_bytes_b64 returns NULL); a request for more, with the library
\* initialized and memory to be had, succeeds
C7_ZeroLengthFails ==
    /\ (pc = "returned" /\ op = "random_bytes") =>
           IF args.len = 0 THEN rc = -1 /\ out = args.buf
           ELSE (args.init /\ ~args.buf.null) => rc = 0
    /\ (pc = "returned" /\ op = "random_bytes_b64") =>
           IF args.len = 0 THEN ret.null
           ELSE (args.init /\ args.oom = 0) => ~ret.null

\* HKDF of RFC 5869 over the HMAC above: T(lo) || ... || T(hi) appended to
\* acc.okm, acc.t being T(lo - 1)
RECURSIVE RfcExpand(_, _, _, _, _)
RfcExpand(acc, lo, hi, prk, info) ==
    IF lo > hi THEN acc
    ELSE IF lo = hi
    THEN LET ti == HmacDigest(prk, acc.t \o info \o <<lo>>)
         IN  [t |-> ti, okm |-> acc.okm \o ti]
    ELSE LET mid == (lo + hi) \div 2
             half == RfcExpand(acc, lo, mid, prk, info)
         IN  IF Strict(half) THEN RfcExpand(half, mid + 1, hi, prk, info) ELSE half

\* the first L bytes of T(1) || ... || T(n), PRK = HMAC(salt, ikm), the salt
\* being 32 zero bytes when none is given
RfcOkm(ikm, salt, info, L) ==
    LET prk == HmacDigest(IF salt.p.null \/ salt.len = 0 THEN Zeros(HASH_LEN)
                          ELSE SubSeq(salt.p.s, 1, salt.len), ikm)
        inf == IF info.p.null THEN <<>> ELSE SubSeq(info.p.s, 1, info.len)
        r == RfcExpand([t |-> <<>>, okm |-> <<>>], 1, BlocksNeeded(L), prk, inf)
    IN  SubSeq(r.okm, 1, L)

\* okm holds the RFC's output in its first okm_len bytes, and what lies behind
\* them has not been written
HkdfWroteRfcOutput ==
    /\ rc = 0
    /\ SubSeq(out.s, 1, args.okm_len)
           = RfcOkm(args.ikm, args.salt, args.info, args.okm_len)
    /\ SubSeq(out.s, args.okm_len + 1, Len(out.s)) = Untouched(HASH_LEN)

\* a call of hkdf_sha256 with an okm buffer and 1 <= okm_len <= 255 * 32
HkdfInRange ==
    HkdfReturned /\ ~args.okm_null /\ args.okm_len \in 1..HkdfMax

\* C8 (as stated): for 1 <= okm_len <= 255 * 32 hkdf_sha256 returns 0 and
\* writes exactly the first okm_len bytes of T(1) || ... || T(n) to okm
C8_HkdfAlwaysMatchesRfc5869 == HkdfInRange => HkdfWroteRfcOutput

\* C8 (amended): it does so whenever sodium_init succeeds; when sodium_init
\* fails it returns -1 and leaves okm alone
C8_HkdfMatchesRfc5869 ==
    HkdfInRange =>
        IF args.init THEN HkdfWroteRfcOutput
        ELSE rc = -1 /\ out = Str(OkmMemory(args.okm_len))

C8_LongestPartialOutputSeen ==
    /\ HkdfInRange
    /\ args.init
    /\ args.okm_len = HkdfMax - HASH_LEN + 1
    /\ args.info.len > 0 /\ ~args.info.p.null
    /\ rc = 0
    /\ out.s[args.okm_len] # -1

\* an argument of derive_session_key_b64 is empty
Empty(a) == a.p.null \/ a.len = 0

\* C9: derive_session_key_b64 fails when master_key or ephemeral_key is empty,
\* and otherwise (library initialized, memory to be had) returns the base64
\* text of HKDF(master_key || ephemeral_key, salt, no info, 32 bytes), on the
\* stack and the heap path, for all lengths, wrapping sums included
C9_DeriveIsHkdfOfConcat ==
    DeriveReturned =>
        IF Empty(args.master) \/ args.eph.len = 0 THEN ret.null
        ELSE (~args.eph.p.null /\ args.init /\ args.oom = 0) =>
                 /\ path \notin {"stack_ub", "heap_ub"}
                 /\ ret = Str(Bin2Base64(
                              RfcOkm(SubSeq(args.master.p.s, 1, args.master.len)
                                         \o SubSeq(args.eph.p.s, 1, args.eph.len),
                                     args.salt, Arg(NULL, 0), SESSION_KEY_LEN)))

=============================================================================
